---- MODULE Spec2Model ----
(***************************************************************************)
(* A model of triarc's Backend (src/triarc/bot/backend.py): the listener   *)
(* registry and receive_message, the reply mutators, the stop-scope        *)
(* bookkeeping around _watch_stop_scopes / new_stop_scope, and the         *)
(* throttling state of ThrottledBackend.                                   *)
(***************************************************************************)
EXTENDS Integers, Sequences, FiniteSets, TLC

\* ------------------------------------------------------------- bounds
MaxHandlers == 2
MaxCalls == 2
MaxRegs == 4
MaxStarts == 1
MaxScopes == 2
MaxMutators == 3
MaxMsgs == 5
\* ThrottledBackend.max_heat of the backend modelled (the field defaults to 5)
max_heat == 2
\* maxsize of queue.Queue(), line 267: 0, which Python takes as no limit
QueueMaxSize == 0

Handlers == 1..MaxHandlers
Calls == 1..MaxCalls
Kinds == {"k1", "k2"}
Data == {"d1", "d2"}
NoHandler == 0
Nurseries == 1..MaxStarts
Scopes == 1..MaxScopes
None == 0
Mutators == 1..MaxMutators
Targets == {"t1", "t2"}
Replies == {<<"r1">>, <<"r2">>}

VARIABLES
    listeners,        \* Backend.listeners: dict kind -> set of handlers
    globallisteners,  \* Backend.globallisteners: [type, elems]
    order,            \* history: per kind, the handlers in the order listen(kind) first got them
    gorder,           \* history: the handlers in the order listen_all was first called with them
    callpc,           \* per receive_message call: idle / loop / handler / returned / raised
    callKind,         \* per call: the kind argument
    callData,         \* per call: the data argument
    lists,            \* per call: the members of `lists` the for loop has not visited yet
    snapshot,         \* history: per call, the value of `lists` computed at line 133
    cur,              \* per call: the handler being awaited
    log,              \* history: per call, the invocations made, <<handler, kind, data>>
    error,            \* per call: the exception that left receive_message
    startK,           \* history: per call, handlers listen(kind) had been given when the call began
    startG,           \* history: per call, handlers listen_all had been given when the call began
    failed,           \* history: per call, the handlers that raised
    view,             \* per call: what the for loop iterates, a set of its own or a registry set
    active,           \* history: per call, the handlers started and not yet ended
    state,            \* lifecycle state kept by the concrete backend's start / stop
    nstarts,          \* number of start() calls so far; the latest run's nursery is nstarts
    stop_scopes,      \* Backend.stop_scopes
    stop_scope_watcher, \* Backend.stop_scope_watcher: None or a nursery
    nursery,          \* per nursery: [status, cancelled, crashed]
    rus,              \* per nursery: where its _run_until_stopped task is
    onl,              \* per nursery: where its on_loaded task is
    nscopes,          \* number of trio.CancelScope objects new_stop_scope has made
    cancel_called,    \* per scope: CancelScope.cancel_called
    wpc,              \* per scope: where its watch_scope task is
    wnur,             \* per scope: the nursery its watch_scope task was started in
    createdIn,        \* history: per scope, the lifecycle state when it was made
    nsret,            \* history: outcome of the last new_stop_scope call
    mutators,         \* Backend.mutators: [type, elems]
    morder,           \* history: the mutators in the order _register_mutator first got them
    regret,           \* history: outcome of the last _register_mutator call
    mret,             \* history: the last _mutate_reply call, its arguments and result
    heat,             \* ThrottledBackend.heat
    throttle,         \* ThrottledBackend.throttle
    out_queue,        \* ThrottledBackend.out_queue: the messages waiting, oldest first
    nmsgs,            \* number of sends issued so far; they are numbered 1, 2, ..
    sent,             \* history: the messages handed to the transport, in order
    qorder,           \* history: the messages put on out_queue, in order
    sret              \* history: the last send issued, [op, msg, outcome]

regVars == <<listeners, globallisteners, order, gorder>>
iterVars == <<callpc, callKind, callData, lists, snapshot, cur, log, error, startK, startG, failed>>
callVars == <<iterVars, view, active>>
dispVars == <<regVars, callVars>>
lifeVars == <<state, nstarts, stop_scopes, stop_scope_watcher, nursery, rus, onl,
              nscopes, cancel_called, wpc, wnur, createdIn, nsret>>
mutVars == <<mutators, morder, regret, mret>>
thrVars == <<heat, throttle, out_queue, nmsgs, sent, qorder, sret>>
auxVars == <<mutVars, thrVars>>
vars == <<dispVars, lifeVars, auxVars>>

\* ------------------------------------------------------------- helpers
Range(s) == {s[i] : i \in DOMAIN s}

\* dict.get(k, default)
Get(d, k, default) == IF k \in DOMAIN d THEN d[k] ELSE default

\* append x to the history sequence s unless it is there already
Note(s, x) == IF x \in Range(s) THEN s ELSE Append(s, x)

\* attr.Factory(dict): the default value of globallisteners (line 43-45)
EmptyDict == [type |-> "dict", elems |-> {}]
\* a set passed to the constructor as globallisteners=set()
EmptySet == [type |-> "set", elems |-> {}]

\* the sequence s is a prefix of t
IsPrefix(s, t) == Len(s) <= Len(t) /\ \A i \in DOMAIN s : s[i] = t[i]

\* number of entries of the log s equal to e
Count(s, e) == Cardinality({i \in DOMAIN s : s[i] = e})

\* ------------------------------------------------------------- registry
\* listen(name)(func), line 75: self.listeners.setdefault(name, set()).add(func)
SetDefaultAdd(d, name, func) ==
    [k \in DOMAIN d \cup {name} |->
        IF k = name THEN Get(d, name, {}) \cup {func} ELSE d[k]]

\* the number of registrations made so far (repeated ones not counted)
Regs == Len(gorder) + Len(order["k1"]) + Len(order["k2"])

\* a for loop over a set that has changed size since the loop began raises
\* RuntimeError at its next step; a loop over a set of its own is not touched
Iterated(c, name, func) ==
    IF /\ view[c] = "alias"
       /\ callpc[c] \in {"loop", "handler"}
       /\ callKind[c] = name
       /\ func \notin Get(listeners, name, {})
    THEN "changed"
    ELSE view[c]

listen(name, func) ==
    /\ func \in Range(order[name]) \/ Regs < MaxRegs
    /\ listeners' = SetDefaultAdd(listeners, name, func)
    /\ order' = [order EXCEPT ![name] = Note(@, func)]
    /\ view' = [c \in Calls |-> Iterated(c, name, func)]
    /\ UNCHANGED <<globallisteners, gorder, iterVars, active, lifeVars, auxVars>>

\* line 89: self.globallisteners.add(func); a dict has no add, the call raises
\* AttributeError and nothing is registered
GlobalAdd(g, func) ==
    IF g.type = "set"
    THEN [ok |-> TRUE, val |-> [g EXCEPT !.elems = @ \cup {func}]]
    ELSE [ok |-> FALSE, val |-> g]

\* listen_all()(func), line 88-90
listen_all(func) ==
    LET r == GlobalAdd(globallisteners, func) IN
    /\ func \in Range(gorder) \/ Regs < MaxRegs
    /\ globallisteners' = r.val
    /\ gorder' = Note(gorder, func)
    /\ UNCHANGED <<listeners, order, callVars, lifeVars, auxVars>>

\* ------------------------------------------------------------- receive_message
\* (mutant) the handlers of every kind are taken
UnionAllKinds(ls, g, kind) ==
    IF g.type = "set"
    THEN [ok |-> TRUE, val |-> UNION {ls[k] : k \in DOMAIN ls} \cup g.elems, view |-> "copy"]
    ELSE [ok |-> FALSE, val |-> {}, view |-> "none"]

\* (mutant) the global handlers are forgotten
UnionNoGlobal(ls, g, kind) ==
    IF g.type = "set"
    THEN [ok |-> TRUE, val |-> Get(ls, kind, {}), view |-> "copy"]
    ELSE [ok |-> FALSE, val |-> {}, view |-> "none"]

\* (mutant) the loop runs over the registry's own set instead of a new one
UnionAlias(ls, g, kind) ==
    IF g.type = "set"
    THEN [ok |-> TRUE, val |-> Get(ls, kind, {}) \cup g.elems, view |-> "alias"]
    ELSE [ok |-> FALSE, val |-> {}, view |-> "none"]

\* line 133: lists = self.listeners.get(kind, set()) | self.globallisteners
\* set | dict raises TypeError; set | set is a new set, which later additions
\* to the registry do not reach
Union(ls, g, kind) ==
    IF g.type = "set"
    THEN [ok |-> TRUE, val |-> Get(ls, kind, {}) \cup g.elems, view |-> "copy"]
    ELSE [ok |-> FALSE, val |-> {}, view |-> "none"]

\* line 136: listener(kind, data)
Invoke(listener, kind, data) == <<listener, kind, data>>

\* line 135: the next element a for loop over the set s may yield
NextOf(s) == s

receive_message_begin(c, kind, data) ==
    LET u == Union(listeners, globallisteners, kind) IN
    /\ callpc[c] = "idle"
    /\ callKind' = [callKind EXCEPT ![c] = kind]
    /\ callData' = [callData EXCEPT ![c] = data]
    /\ startK' = [startK EXCEPT ![c] = Range(order[kind])]
    /\ startG' = [startG EXCEPT ![c] = Range(gorder)]
    /\ failed' = [failed EXCEPT ![c] = {}]
    /\ log' = [log EXCEPT ![c] = <<>>]
    /\ cur' = [cur EXCEPT ![c] = NoHandler]
    /\ lists' = [lists EXCEPT ![c] = u.val]
    /\ snapshot' = [snapshot EXCEPT ![c] = u.val]
    /\ callpc' = [callpc EXCEPT ![c] = IF u.ok THEN "loop" ELSE "raised"]
    /\ error' = [error EXCEPT ![c] = IF u.ok THEN "none" ELSE "TypeError"]
    /\ view' = [view EXCEPT ![c] = u.view]
    /\ active' = [active EXCEPT ![c] = {}]
    /\ UNCHANGED <<regVars, lifeVars, auxVars>>

\* line 135-136: the for loop takes its next listener and awaits it, or ends
\* (mutant) every listener is started in a nursery, none is waited for
\* (the variant left commented out at line 138-140)
AtLoopSpawn(c) == callpc[c] \in {"loop", "handler"}

\* line 136: `await listener(kind, data)`: the loop is at its next step only
\* when the awaited listener has ended
AtLoop(c) == callpc[c] = "loop"

receive_message_loop(c) ==
    /\ AtLoop(c)
    /\ IF view[c] = "changed"
       THEN /\ callpc' = [callpc EXCEPT ![c] = "raised"]
            /\ error' = [error EXCEPT ![c] = "RuntimeError"]
            /\ UNCHANGED <<lists, cur, log, active>>
       ELSE IF lists[c] = {}
       THEN /\ callpc' = [callpc EXCEPT ![c] = "returned"]
            /\ UNCHANGED <<lists, cur, log, error, active>>
       ELSE \E listener \in NextOf(lists[c]) :
            /\ lists' = [lists EXCEPT ![c] = @ \ {listener}]
            /\ cur' = [cur EXCEPT ![c] = listener]
            /\ log' = [log EXCEPT ![c] = Append(@, Invoke(listener, callKind[c], callData[c]))]
            /\ callpc' = [callpc EXCEPT ![c] = "handler"]
            /\ active' = [active EXCEPT ![c] = @ \cup {listener}]
            /\ UNCHANGED error
    /\ UNCHANGED <<lifeVars, regVars, callKind, callData, snapshot, startK, startG, failed, view, auxVars>>

\* the awaited listener returns: the loop goes on
handler_return(c) ==
    /\ callpc[c] = "handler"
    /\ callpc' = [callpc EXCEPT ![c] = "loop"]
    /\ active' = [active EXCEPT ![c] = @ \ {cur[c]}]
    /\ UNCHANGED <<lifeVars, regVars, callKind, callData, lists, snapshot, cur, log, error, startK, startG, failed, view, auxVars>>

\* (mutant) the failure is swallowed and the loop goes on
AfterRaiseIsolated == "loop"

\* where receive_message is after the awaited listener raised: nothing catches it
AfterRaise == "raised"

\* the awaited listener raises
handler_raise(c) ==
    /\ callpc[c] = "handler"
    /\ callpc' = [callpc EXCEPT ![c] = AfterRaise]
    /\ error' = [error EXCEPT ![c] = "HandlerError"]
    /\ failed' = [failed EXCEPT ![c] = @ \cup {cur[c]}]
    /\ active' = [active EXCEPT ![c] = @ \ {cur[c]}]
    /\ UNCHANGED <<lifeVars, regVars, callKind, callData, lists, snapshot, cur, log, startK, startG, view, auxVars>>

\* the caller has seen the outcome; the slot is free for the next call
call_done(c) ==
    /\ callpc[c] \in {"returned", "raised"}
    /\ callpc' = [callpc EXCEPT ![c] = "idle"]
    /\ callKind' = [callKind EXCEPT ![c] = "k1"]
    /\ callData' = [callData EXCEPT ![c] = "d1"]
    /\ lists' = [lists EXCEPT ![c] = {}]
    /\ snapshot' = [snapshot EXCEPT ![c] = {}]
    /\ cur' = [cur EXCEPT ![c] = NoHandler]
    /\ log' = [log EXCEPT ![c] = <<>>]
    /\ error' = [error EXCEPT ![c] = "none"]
    /\ startK' = [startK EXCEPT ![c] = {}]
    /\ startG' = [startG EXCEPT ![c] = {}]
    /\ failed' = [failed EXCEPT ![c] = {}]
    /\ view' = [view EXCEPT ![c] = "none"]
    /\ active' = [active EXCEPT ![c] = {}]
    /\ UNCHANGED <<regVars, lifeVars, auxVars>>

\* ------------------------------------------------------------- specification
InitDispatch ==
    /\ listeners = <<>>
    /\ globallisteners \in {EmptyDict, EmptySet}
    /\ order = [k \in Kinds |-> <<>>]
    /\ gorder = <<>>
    /\ callpc = [c \in Calls |-> "idle"]
    /\ callKind = [c \in Calls |-> "k1"]
    /\ callData = [c \in Calls |-> "d1"]
    /\ lists = [c \in Calls |-> {}]
    /\ snapshot = [c \in Calls |-> {}]
    /\ cur = [c \in Calls |-> NoHandler]
    /\ log = [c \in Calls |-> <<>>]
    /\ error = [c \in Calls |-> "none"]
    /\ startK = [c \in Calls |-> {}]
    /\ startG = [c \in Calls |-> {}]
    /\ failed = [c \in Calls |-> {}]
    /\ view = [c \in Calls |-> "none"]
    /\ active = [c \in Calls |-> {}]

InitLife ==
    /\ state = "Stopped"
    /\ nstarts = 0
    /\ stop_scopes = {}
    /\ stop_scope_watcher = None
    /\ nursery = [n \in Nurseries |-> [status |-> "none", cancelled |-> FALSE, crashed |-> FALSE]]
    /\ rus = [n \in Nurseries |-> "none"]
    /\ onl = [n \in Nurseries |-> "none"]
    /\ nscopes = 0
    /\ cancel_called = [s \in Scopes |-> FALSE]
    /\ wpc = [s \in Scopes |-> "none"]
    /\ wnur = [s \in Scopes |-> None]
    /\ createdIn = [s \in Scopes |-> "none"]
    /\ nsret = [scope |-> None, outcome |-> "none"]

\* the mutators of a backend as constructed: the default dict, or a set given
\* to the constructor
InitMut ==
    /\ mutators \in {EmptyDict, EmptySet}
    /\ morder = <<>>
    /\ regret = "none"
    /\ mret = [called |-> FALSE]

\* ThrottledBackend as constructed, line 263-268; throttle is for the caller
\* to choose
InitThrottle ==
    /\ heat = 0
    /\ throttle \in BOOLEAN
    /\ out_queue = <<>>
    /\ nmsgs = 0
    /\ sent = <<>>
    /\ qorder = <<>>
    /\ sret = [op |-> "none", msg |-> 0, outcome |-> "none"]

InitAux ==
    /\ mutators = EmptyDict /\ morder = <<>> /\ regret = "none" /\ mret = [called |-> FALSE]
    /\ InitThrottle /\ throttle = TRUE

Init == InitDispatch /\ InitLife /\ InitAux

\* the stop-scope machinery does not read the registry: one backend suffices
InitDefault == Init /\ globallisteners = EmptyDict

\* one receive_message call at a time, any number of them
Next ==
    \/ \E k \in Kinds, h \in Handlers : listen(k, h)
    \/ \E h \in Handlers : listen_all(h)
    \/ \E k \in Kinds, d \in Data : receive_message_begin(1, k, d)
    \/ receive_message_loop(1)
    \/ handler_return(1)
    \/ handler_raise(1)
    \/ call_done(1)

Spec == Init /\ [][Next]_vars

\* a backend given a set as globallisteners, after listen("k1") has been
\* called with every handler in turn
InitConc ==
    /\ InitLife
    /\ listeners = [k \in {"k1"} |-> Handlers]
    /\ globallisteners = EmptySet
    /\ order = [k \in Kinds |-> IF k = "k1" THEN [i \in 1..MaxHandlers |-> i] ELSE <<>>]
    /\ gorder = <<>>
    /\ callpc = [c \in Calls |-> "idle"]
    /\ callKind = [c \in Calls |-> "k1"]
    /\ callData = [c \in Calls |-> "d1"]
    /\ lists = [c \in Calls |-> {}]
    /\ snapshot = [c \in Calls |-> {}]
    /\ cur = [c \in Calls |-> NoHandler]
    /\ log = [c \in Calls |-> <<>>]
    /\ error = [c \in Calls |-> "none"]
    /\ startK = [c \in Calls |-> {}]
    /\ startG = [c \in Calls |-> {}]
    /\ failed = [c \in Calls |-> {}]
    /\ view = [c \in Calls |-> "none"]
    /\ active = [c \in Calls |-> {}]
    /\ InitAux

\* several receive_message calls in flight at once (tasks of one trio run,
\* which change places where a handler suspends), each slot used once
NextConc ==
    \/ \E c \in Calls, k \in Kinds, d \in Data : receive_message_begin(c, k, d)
    \/ \E c \in Calls : receive_message_loop(c)
    \/ \E c \in Calls : handler_return(c)
    \/ \E c \in Calls : handler_raise(c)

SpecConc == InitConc /\ [][NextConc]_vars

\* ------------------------------------------------------------- lifecycle
\* running(), which _run_until_stopped polls: the backend is meant to be running
running == state \in {"Starting", "Running"}

\* start(): Stopped -> Starting; the run's _watch_stop_scopes is scheduled
start ==
    /\ state = "Stopped"
    /\ nstarts < MaxStarts
    /\ state' = "Starting"
    /\ nstarts' = nstarts + 1
    /\ UNCHANGED <<dispVars, stop_scopes, stop_scope_watcher, nursery, rus, onl,
                   nscopes, cancel_called, wpc, wnur, createdIn, nsret, auxVars>>

\* the state start() reaches once the supervising task group is open
StateAfterOpen == "Running"

\* _watch_stop_scopes, line 198-206: the nursery is opened and kept in
\* stop_scope_watcher, the two tasks are started; the function then waits in
\* the nursery's exit for its children
_watch_stop_scopes(n) ==
    /\ state = "Starting"
    /\ n = nstarts
    /\ nursery[n].status = "none"
    /\ nursery' = [nursery EXCEPT ![n].status = "open"]
    /\ stop_scope_watcher' = n
    /\ rus' = [rus EXCEPT ![n] = "ready"]
    /\ onl' = [onl EXCEPT ![n] = "ready"]
    /\ state' = StateAfterOpen
    /\ UNCHANGED <<dispVars, nstarts, stop_scopes, nscopes, cancel_called, wpc,
                   wnur, createdIn, nsret, auxVars>>

\* a task arriving at `await trio.sleep(..)` in nursery n: it is cancelled
\* there when the nursery has been cancelled, and sleeps otherwise
AtSleep(n) == IF nursery[n].cancelled THEN "cancelled" ELSE "sleeping"

\* _run_until_stopped, line 201-203: one turn of the task (its first run, or
\* its waking from trio.sleep(0.05))
_run_until_stopped(n) ==
    /\ rus[n] \in {"ready", "sleeping"}
    /\ rus' = [rus EXCEPT ![n] =
                 IF rus[n] = "sleeping" /\ nursery[n].cancelled THEN "cancelled"
                 ELSE IF running THEN AtSleep(n)
                 ELSE "done"]
    /\ rus'[n] # rus[n]
    /\ UNCHANGED <<dispVars, state, nstarts, stop_scopes, stop_scope_watcher, nursery,
                   onl, nscopes, cancel_called, wpc, wnur, createdIn, nsret, auxVars>>

\* the on_loaded callback given to _watch_stop_scopes (line 206) returns
on_loaded(n) ==
    /\ onl[n] = "ready"
    /\ onl' = [onl EXCEPT ![n] = "done"]
    /\ UNCHANGED <<dispVars, state, nstarts, stop_scopes, stop_scope_watcher, nursery,
                   rus, nscopes, cancel_called, wpc, wnur, createdIn, nsret, auxVars>>

\* (mutant) the scope is not recorded
AddScopeForgets(scopes, s) == scopes

\* line 228: self.stop_scopes.add(scope)
AddScope(scopes, s) == scopes \cup {s}

\* line 230: if self.stop_scope_watcher
WatcherSet(w) == w # None

\* (mutant) the watcher task is not started
StartSoonForgets(n) == IF nursery[n].status = "open" THEN "none" ELSE "closed"

\* line 239: self.stop_scope_watcher.start_soon(watch_scope, scope); a nursery
\* that has exited raises RuntimeError("Nursery is closed to new arrivals")
StartSoon(n) == IF nursery[n].status = "open" THEN "ready" ELSE "closed"

\* new_stop_scope, line 227-246
new_stop_scope ==
    LET s == nscopes + 1
        w == stop_scope_watcher
        task == IF WatcherSet(w) THEN StartSoon(w) ELSE "none"
        outcome == IF ~WatcherSet(w) THEN "NotRunning"
                   ELSE IF task = "closed" THEN "NurseryClosed"
                   ELSE "ok"
    IN
    /\ nscopes < MaxScopes
    /\ nscopes' = s
    /\ stop_scopes' = AddScope(stop_scopes, s)
    /\ createdIn' = [createdIn EXCEPT ![s] = state]
    /\ wpc' = [wpc EXCEPT ![s] = IF outcome = "ok" THEN task ELSE "none"]
    /\ wnur' = [wnur EXCEPT ![s] = IF outcome = "ok" THEN w ELSE None]
    /\ nsret' = [scope |-> s, outcome |-> outcome]
    /\ UNCHANGED <<dispVars, state, nstarts, stop_scope_watcher, nursery, rus, onl,
                   cancel_called, auxVars>>

\* the scopes new_stop_scope has returned to a caller
Held == {s \in 1..nscopes : wnur[s] # None}

\* the holder of a scope calls scope.cancel()
cancel(s) ==
    /\ s \in Held
    /\ ~cancel_called[s]
    /\ cancel_called' = [cancel_called EXCEPT ![s] = TRUE]
    /\ UNCHANGED <<dispVars, state, nstarts, stop_scopes, stop_scope_watcher, nursery,
                   rus, onl, nscopes, wpc, wnur, createdIn, nsret, auxVars>>

\* (mutant) the watcher does not wait for the cancellation
LoopExitAlways(s) == TRUE

\* line 233: while not scope.cancel_called
LoopExit(s) == cancel_called[s]

\* line 236: self.stop_scopes.remove(scope); set.remove raises KeyError when
\* the element is not there
Remove(scopes, s) ==
    IF s \in scopes THEN [ok |-> TRUE, val |-> scopes \ {s}]
    ELSE [ok |-> FALSE, val |-> scopes]

\* watch_scope, line 232-237: one turn of the task (its first run, or its
\* waking from trio.sleep(0.2)); an exception leaving it cancels its nursery
watch_scope(s) ==
    LET n == wnur[s]
        r == Remove(stop_scopes, s)
        next == IF wpc[s] = "sleeping" /\ nursery[n].cancelled THEN "cancelled"
                ELSE IF ~LoopExit(s) THEN AtSleep(n)
                ELSE IF r.ok THEN "removed"
                ELSE "KeyError"
    IN
    /\ wpc[s] \in {"ready", "sleeping"}
    /\ next # wpc[s]
    /\ wpc' = [wpc EXCEPT ![s] = next]
    /\ stop_scopes' = IF next = "removed" THEN r.val ELSE stop_scopes
    /\ nursery' = IF next = "KeyError"
                  THEN [nursery EXCEPT ![n].cancelled = TRUE, ![n].crashed = TRUE]
                  ELSE nursery
    /\ UNCHANGED <<dispVars, state, nstarts, stop_scope_watcher, rus, onl, nscopes,
                   cancel_called, wnur, createdIn, nsret, auxVars>>

\* (mutant) the nursery does not wait for the watch_scope tasks
LiveIgnoresWatchers(n) ==
    (IF rus[n] \in {"ready", "sleeping"} THEN 1 ELSE 0)
    + (IF onl[n] = "ready" THEN 1 ELSE 0)

\* the number of tasks of nursery n that have not ended
Live(n) ==
    (IF rus[n] \in {"ready", "sleeping"} THEN 1 ELSE 0)
    + (IF onl[n] = "ready" THEN 1 ELSE 0)
    + Cardinality({s \in Scopes : wnur[s] = n /\ wpc[s] \in {"ready", "sleeping"}})

\* line 198: the `async with` block ends when every child task has ended;
\* _watch_stop_scopes then returns, or raises what a child raised
nursery_exit(n) ==
    /\ nursery[n].status = "open"
    /\ Live(n) = 0
    /\ nursery' = [nursery EXCEPT ![n].status = "closed"]
    /\ UNCHANGED <<dispVars, state, nstarts, stop_scopes, stop_scope_watcher, rus, onl,
                   nscopes, cancel_called, wpc, wnur, createdIn, nsret, auxVars>>

\* stop(), first part: Running -> Stopping; every scope of the active set is
\* cancelled, and stop() waits for the scopes
stop_begin ==
    /\ state = "Running"
    /\ state' = "Stopping"
    /\ cancel_called' = [s \in Scopes |-> cancel_called[s] \/ s \in stop_scopes]
    /\ UNCHANGED <<dispVars, nstarts, stop_scopes, stop_scope_watcher, nursery, rus, onl,
                   nscopes, wpc, wnur, createdIn, nsret, auxVars>>

\* stop(), forced teardown (at once, or when the grace period has elapsed):
\* the supervising task group is cancelled, and with it every live scope
stop_teardown ==
    /\ state = "Stopping"
    /\ stop_scope_watcher # None
    /\ nursery[stop_scope_watcher].status = "open"
    /\ ~nursery[stop_scope_watcher].cancelled
    /\ nursery' = [nursery EXCEPT ![stop_scope_watcher].cancelled = TRUE]
    /\ cancel_called' = [s \in Scopes |-> cancel_called[s] \/ s \in stop_scopes]
    /\ UNCHANGED <<dispVars, state, nstarts, stop_scopes, stop_scope_watcher, rus, onl,
                   nscopes, wpc, wnur, createdIn, nsret, auxVars>>

\* what stop() has done before it returns: the supervising task group is
\* cancelled, unless it has ended by itself
StopMayEnd ==
    /\ stop_scope_watcher # None
    /\ nursery[stop_scope_watcher].cancelled \/ nursery[stop_scope_watcher].status = "closed"

\* stop(), last part: Stopping -> Stopped; the active set is cleared
stop_end ==
    /\ state = "Stopping"
    /\ StopMayEnd
    /\ state' = "Stopped"
    /\ stop_scopes' = {}
    /\ UNCHANGED <<dispVars, nstarts, stop_scope_watcher, nursery, rus, onl, nscopes,
                   cancel_called, wpc, wnur, createdIn, nsret, auxVars>>

NextLife ==
    \/ start
    \/ \E n \in Nurseries : _watch_stop_scopes(n)
    \/ \E n \in Nurseries : _run_until_stopped(n)
    \/ \E n \in Nurseries : on_loaded(n)
    \/ new_stop_scope
    \/ \E s \in Scopes : cancel(s)
    \/ \E s \in Scopes : watch_scope(s)
    \/ \E n \in Nurseries : nursery_exit(n)
    \/ stop_begin
    \/ stop_teardown
    \/ stop_end

SpecLife == InitDefault /\ [][NextLife]_vars

\* ------------------------------------------------------------- mutators
\* Mutator.modify_message(backend, target, reply) of mutator m: a reply is
\* modelled as the sequence of what was done to it
modify_message(m, target, reply) == Append(reply, <<m, target>>)

\* line 55: self.mutators.add(mutator); a dict has no add
MutatorsAdd(ms, m) ==
    IF ms.type = "set"
    THEN [ok |-> TRUE, val |-> [ms EXCEPT !.elems = @ \cup {m}]]
    ELSE [ok |-> FALSE, val |-> ms]

\* _register_mutator, line 54-55
_register_mutator(m) ==
    LET r == MutatorsAdd(mutators, m) IN
    /\ mutators' = r.val
    /\ morder' = Note(morder, m)
    /\ regret' = IF r.ok THEN "ok" ELSE "AttributeError"
    /\ UNCHANGED <<mret, dispVars, lifeVars, thrVars>>

\* line 58: the orders in which `for mut in self.mutators` may yield the
\* members: any order for a set (and nothing for the empty dict)
IterOrders(ms) ==
    {q \in [1..Cardinality(ms.elems) -> ms.elems] : \A i, j \in DOMAIN q : q[i] = q[j] => i = j}

\* line 58-61: reply = mut.modify_message(self, target, reply) for each mut
\* of q in turn
RECURSIVE Fold(_, _, _)
Fold(q, target, reply) ==
    IF q = <<>> THEN reply
    ELSE Fold(Tail(q), target, modify_message(Head(q), target, reply))

\* _mutate_reply, line 57-61
_mutate_reply(target, reply) ==
    /\ \E q \in IterOrders(mutators) :
        mret' = [called |-> TRUE, target |-> target, reply |-> reply,
                 registered |-> morder, out |-> Fold(q, target, reply)]
    /\ UNCHANGED <<mutators, morder, regret, dispVars, lifeVars, thrVars>>

NextMut ==
    \/ \E m \in Mutators : _register_mutator(m)
    \/ \E t \in Targets, r \in Replies : _mutate_reply(t, r)

\* a backend as constructed, its mutators a dict or a set
InitBackendMut ==
    /\ InitDispatch /\ globallisteners = EmptyDict
    /\ InitLife
    /\ InitMut
    /\ InitThrottle /\ throttle = TRUE

SpecMut == InitBackendMut /\ [][NextMut]_vars

\* C16 (as claimed): _mutate_reply(target, reply) returns what the mutators
\* given to _register_mutator so far make of reply, applied one after another
\* in the order they were first registered (a mutator registered twice counts
\* once); with none registered it returns reply.
C16_FoldInRegistrationOrder ==
    mret.called => mret.out = Fold(mret.registered, mret.target, mret.reply)

\* ------------------------------------------------------------- throttling
\* maximum_heat, line 270-278
maximum_heat == max_heat

\* (mutant) a send is admitted at the ceiling too
CanAdmitAtCeiling(h) == h <= maximum_heat

\* immediate admission is possible: heat < maximumHeat()
CanAdmit(h) == h < maximum_heat

\* (mutant) an admitted send costs two units
AdmitTwo(h) == h + 2

\* an admitted send increments heat by one unit
Admit(h) == h + 1

\* (mutant) a queue of capacity one
PutBounded(q, x) ==
    IF Len(q) >= 1
    THEN [ok |-> FALSE, val |-> q]
    ELSE [ok |-> TRUE, val |-> Append(q, x)]

\* queue.Queue.put_nowait on out_queue (line 267): queue.Full is raised only
\* when 0 < maxsize <= qsize
Put(q, x) ==
    IF 0 < QueueMaxSize /\ QueueMaxSize <= Len(q)
    THEN [ok |-> FALSE, val |-> q]
    ELSE [ok |-> TRUE, val |-> Append(q, x)]

\* (mutant) the newest entry is taken
DequeueNewest(q) == [msg |-> q[Len(q)], rest |-> SubSeq(q, 1, Len(q) - 1)]

\* the drain task dequeues the oldest entry
Dequeue(q) == [msg |-> Head(q), rest |-> Tail(q)]

\* sendThrottled(target, payload): forwarded at once when throttling is off or
\* heat is below the ceiling (which costs one unit of heat), put on out_queue
\* otherwise
sendThrottled ==
    LET m == nmsgs + 1
        r == Put(out_queue, m)
    IN
    /\ nmsgs < MaxMsgs
    /\ nmsgs' = m
    /\ IF ~throttle
       THEN /\ sent' = Append(sent, m)
            /\ sret' = [op |-> "throttled", msg |-> m, outcome |-> "sent"]
            /\ UNCHANGED <<heat, out_queue, qorder>>
       ELSE IF CanAdmit(heat)
       THEN /\ heat' = Admit(heat)
            /\ sent' = Append(sent, m)
            /\ sret' = [op |-> "throttled", msg |-> m, outcome |-> "sent"]
            /\ UNCHANGED <<out_queue, qorder>>
       ELSE /\ out_queue' = r.val
            /\ qorder' = IF r.ok THEN Append(qorder, m) ELSE qorder
            /\ sret' = [op |-> "throttled", msg |-> m,
                        outcome |-> IF r.ok THEN "queued" ELSE "Backpressure"]
            /\ UNCHANGED <<heat, sent>>
    /\ UNCHANGED <<throttle, dispVars, lifeVars, mutVars>>

\* sendSynchronous(target, payload) / message_sync: NotSupported when
\* throttling is on and heat is at the ceiling, forwarded at once otherwise
sendSynchronous ==
    LET m == nmsgs + 1 IN
    /\ nmsgs < MaxMsgs
    /\ nmsgs' = m
    /\ IF throttle /\ ~CanAdmit(heat)
       THEN /\ sret' = [op |-> "sync", msg |-> m, outcome |-> "NotSupported"]
            /\ UNCHANGED <<heat, sent>>
       ELSE /\ heat' = IF throttle THEN Admit(heat) ELSE heat
            /\ sent' = Append(sent, m)
            /\ sret' = [op |-> "sync", msg |-> m, outcome |-> "sent"]
    /\ UNCHANGED <<throttle, out_queue, qorder, dispVars, lifeVars, mutVars>>

\* the decrement a forwarded send schedules: heat decays by one unit
decay ==
    /\ heat > 0
    /\ heat' = heat - 1
    /\ UNCHANGED <<throttle, out_queue, nmsgs, sent, qorder, sret, dispVars, lifeVars, mutVars>>

\* the drain task, which runs only while the state is Running: when heat is
\* below the ceiling and an entry is waiting, it dequeues the oldest entry,
\* sends it and increments heat
drain ==
    LET d == Dequeue(out_queue) IN
    /\ state = "Running"
    /\ out_queue # <<>>
    /\ CanAdmit(heat)
    /\ out_queue' = d.rest
    /\ sent' = Append(sent, d.msg)
    /\ heat' = Admit(heat)
    /\ UNCHANGED <<throttle, nmsgs, qorder, sret, dispVars, lifeVars, mutVars>>

\* a throttling backend that is started and not stopped
NextThrottle ==
    \/ start
    \/ \E n \in Nurseries : _watch_stop_scopes(n)
    \/ sendThrottled
    \/ sendSynchronous
    \/ decay
    \/ drain

\* a throttling backend as constructed, with throttle on or off
InitBackendThrottle ==
    /\ InitDispatch /\ globallisteners = EmptyDict
    /\ InitLife
    /\ mutators = EmptyDict /\ morder = <<>> /\ regret = "none" /\ mret = [called |-> FALSE]
    /\ InitThrottle

SpecThrottle == InitBackendThrottle /\ [][NextThrottle]_vars

\* the decay timers fire and the drain task is scheduled
FairThrottle == SpecThrottle /\ WF_vars(decay) /\ WF_vars(drain)

\* a send was issued in this step
Issued(op) == sret' # sret /\ sret'.op = op

\* C12: with throttling enabled, 0 <= heat <= maximum_heat() in every
\* reachable state; with throttling disabled every send issued has gone
\* straight to the transport, nothing is on the queue and heat is as it was
\* at construction.
C12_HeatBounds ==
    /\ throttle => 0 <= heat /\ heat <= maximum_heat
    /\ ~throttle =>
        /\ heat = 0
        /\ out_queue = <<>>
        /\ qorder = <<>>
        /\ sent = [i \in 1..nmsgs |-> i]

C12_Witness ==
    \/ throttle /\ heat = maximum_heat /\ out_queue # <<>>
    \/ ~throttle /\ nmsgs > maximum_heat /\ Len(sent) = nmsgs

\* the queued messages that have been sent, in the order they were sent
SentFromQueue == SelectSeq(sent, LAMBDA m : m \in Range(qorder))

C14_SyncSend ==
    [][Issued("sync") =>
        IF throttle /\ heat >= maximum_heat
        THEN /\ sret'.outcome = "NotSupported"
             /\ sent' = sent
             /\ out_queue' = out_queue
             /\ heat' = heat
        ELSE /\ sret'.outcome = "sent"
             /\ sent' = Append(sent, sret'.msg)
             /\ out_queue' = out_queue]_vars

C14_Witness ==
    /\ sret.op = "sync"
    /\ sret.outcome = "NotSupported"
    /\ heat = maximum_heat
    /\ sent # <<>>

\* C15 (as claimed): the length of out_queue never exceeds the capacity the
\* queue was made with.
C15_Bounded ==
    Len(out_queue) <= QueueMaxSize

\* C15 (amended): out_queue is made without a capacity: a send that has to
\* wait is always put at the tail of the queue, whatever the length of the
\* queue, and no send ends with Backpressure.
C15_Unbounded ==
    [][Issued("throttled") /\ throttle /\ heat >= maximum_heat =>
        /\ sret'.outcome = "queued"
        /\ out_queue' = Append(out_queue, sret'.msg)]_vars

C15_Witness ==
    /\ Len(out_queue) >= 2
    /\ sret.outcome = "queued"

\* ------------------------------------------------------------- dispatch properties
Finished(c) == callpc[c] \in {"returned", "raised"}

\* the handlers a call has invoked, in order
LogHandlers(c) == [i \in DOMAIN log[c] |-> log[c][i][1]]

\* registration order at the call's start: the kind's handlers, then the global
\* ones that are not among them
Expected(c) ==
    SelectSeq(order[callKind[c]], LAMBDA h : h \in startK[c])
    \o SelectSeq(gorder, LAMBDA h : h \in startG[c] \ startK[c])

\* C1 (as claimed): a receive_message(k, data) call that has ended invoked every
\* handler that listen had registered under k before the call exactly once, with
\* the arguments (k, data).
C1_InvokedExactlyOnce ==
    \A c \in Calls : Finished(c) =>
        \A h \in startK[c] : Count(log[c], <<h, callKind[c], callData[c]>>) = 1

\* C2 (as claimed): a receive_message call that has ended, of whatever kind,
\* invoked every handler given to listen_all before the call exactly once.
C2_GlobalInvokedOnce ==
    \A c \in Calls : Finished(c) =>
        \A h \in startG[c] :
            Cardinality({i \in DOMAIN log[c] : log[c][i][1] = h}) = 1

\* C3: every invocation a receive_message(k, data) call makes is of a handler
\* registered under k or registered globally before the call, and passes k; a
\* handler registered only under another kind is not invoked.
C3_OnlyKindAndGlobal ==
    \A c \in Calls : \A i \in DOMAIN log[c] :
        /\ log[c][i][1] \in startK[c] \cup startG[c]
        /\ log[c][i][1] \in Get(listeners, callKind[c], {}) \cup globallisteners.elems
        /\ log[c][i][2] = callKind[c]

C3_Witness ==
    \E c \in Calls, h \in Handlers :
        /\ callpc[c] = "returned"
        /\ log[c] # <<>>
        /\ \E k \in Kinds \ {callKind[c]} : h \in Get(listeners, k, {})
        /\ h \notin Get(listeners, callKind[c], {}) \cup globallisteners.elems

\* C4 (as claimed): a handler's failure does not leave receive_message, and the
\* call still invokes every handler of its list.
C4_Isolation ==
    \A c \in Calls : failed[c] # {} =>
        /\ callpc[c] # "raised"
        /\ callpc[c] = "returned" => Range(LogHandlers(c)) = snapshot[c]

\* C4 (amended): when a handler raises, receive_message ends with that
\* exception: the failing handler is the last one invoked, and the handlers the
\* loop had not reached are not invoked.
C4_FailurePropagates ==
    \A c \in Calls : failed[c] # {} =>
        /\ callpc[c] = "raised"
        /\ error[c] = "HandlerError"
        /\ failed[c] = {cur[c]}
        /\ log[c] # <<>>
        /\ log[c][Len(log[c])][1] = cur[c]
        /\ lists[c] \cap Range(LogHandlers(c)) = {}

C4_Witness ==
    \E c \in Calls :
        /\ callpc[c] = "raised"
        /\ failed[c] # {}
        /\ lists[c] # {}

\* C5 (as claimed): the handlers are invoked in registration order: those of
\* the kind, then the global ones.
C5_RegistrationOrder ==
    \A c \in Calls : IsPrefix(LogHandlers(c), Expected(c))

\* C5 (amended): a call invokes the members of listeners[kind] | globallisteners
\* in the iteration order of that set, which need not be registration order:
\* no handler twice, only handlers registered before the call, and all of them
\* once the call has returned.
C5_SetOrder ==
    \A c \in Calls :
        /\ \A i, j \in DOMAIN log[c] : log[c][i][1] = log[c][j][1] => i = j
        /\ Range(LogHandlers(c)) \subseteq startK[c] \cup startG[c]
        /\ callpc[c] = "returned" => Range(LogHandlers(c)) = startK[c] \cup startG[c]

C5_Witness ==
    \E c \in Calls :
        /\ callpc[c] = "returned"
        /\ Len(log[c]) >= 2
        /\ LogHandlers(c) # Expected(c)

\* the handlers registered for the call's kind, or for all kinds, since the
\* call began
RegisteredSince(c) ==
    (Range(order[callKind[c]]) \cup Range(gorder)) \ (startK[c] \cup startG[c])

\* C17: when a handler is registered (listen or listen_all, also for the kind
\* being dispatched) while a receive_message call is running its handlers, the
\* call does not fail because of it, invokes no handler twice and none outside
\* its snapshot, so not the new one, and has invoked every handler of the
\* snapshot once it has returned; the snapshot of a call holds every handler
\* registered before the call began, so a later call invokes the new handler.
C17_SnapshotSemantics ==
    \A c \in Calls :
        /\ log[c] # <<>> /\ RegisteredSince(c) # {} =>
            /\ error[c] \in {"none", "HandlerError"}
            /\ failed[c] = {} => callpc[c] # "raised"
            /\ \A i, j \in DOMAIN log[c] : log[c][i][1] = log[c][j][1] => i = j
            /\ Range(LogHandlers(c)) \subseteq snapshot[c]
            /\ Range(LogHandlers(c)) \cap RegisteredSince(c) = {}
            /\ callpc[c] = "returned" => Range(LogHandlers(c)) = snapshot[c]
        /\ log[c] # <<>> => snapshot[c] = startK[c] \cup startG[c]

C17_Witness ==
    \E c \in Calls, h \in Handlers :
        /\ callpc[c] = "returned"
        /\ log[c] # <<>>
        /\ h \in RegisteredSince(c)
        /\ h \in Get(listeners, callKind[c], {})
        /\ h \notin Range(LogHandlers(c))

\* C18: within one receive_message call at most one handler is running at a
\* time, the one being awaited: a handler is started only when the handlers
\* started before it in that call have ended, also when they suspend; two
\* calls in flight may each have a handler running.
C18_NoOverlap ==
    \A c \in Calls :
        /\ Cardinality(active[c]) <= 1
        /\ callpc[c] = "handler" => active[c] = {cur[c]}
        /\ callpc[c] # "handler" => active[c] = {}

C18_Witness ==
    \E c, d \in Calls :
        /\ c # d
        /\ callpc[c] = "handler" /\ Len(log[c]) >= 2
        /\ callpc[d] = "handler" /\ log[d] # <<>>

\* ------------------------------------------------------------- stop-scope properties
\* C6 (as claimed): a new_stop_scope call made in a state other than Running
\* fails with the RuntimeError "Tried to obtain a stop scope while the backend
\* isn't running!".
C6_NotRunningFails ==
    nsret.scope # None /\ createdIn[nsret.scope] # "Running"
        => nsret.outcome = "NotRunning"

\* C7 (as claimed): a new_stop_scope call that fails because the backend is
\* not running leaves stop_scopes as it was.
C7_FailureLeavesSetUnchanged ==
    [][nsret' # nsret /\ nsret'.outcome = "NotRunning" => stop_scopes' = stop_scopes]_vars

\* C8: a new_stop_scope call made while the state is Running returns a scope
\* that is not cancelled and is in stop_scopes when the call returns, with its
\* watch_scope task started in the open nursery stop_scope_watcher.
C8_RunningSucceeds ==
    [][nscopes' # nscopes /\ state = "Running" =>
        /\ nsret'.outcome = "ok"
        /\ nsret'.scope = nscopes'
        /\ nscopes' \in stop_scopes'
        /\ ~cancel_called'[nscopes']
        /\ stop_scope_watcher # None
        /\ nursery[stop_scope_watcher].status = "open"
        /\ wnur'[nscopes'] = stop_scope_watcher
        /\ wpc'[nscopes'] = "ready"]_vars

C8_Witness ==
    /\ state = "Running"
    /\ nsret.outcome = "ok"
    /\ createdIn[nsret.scope] = "Running"
    /\ nsret.scope \in stop_scopes
    /\ wpc[nsret.scope] = "ready"
    /\ ~cancel_called[nsret.scope]

\* C9 (as claimed, its at-most-once half): no watch_scope task attempts to
\* remove a scope that is already gone from stop_scopes.
C9_RemovedAtMostOnce ==
    \A s \in Scopes : wpc[s] # "KeyError"

\* C10: when stop() has returned, every scope new_stop_scope made while the
\* state was Running has cancel_called set.
C10_StopCancelsAll ==
    state = "Stopped" =>
        \A s \in 1..nscopes : createdIn[s] = "Running" => cancel_called[s]

C10_Witness ==
    /\ state = "Stopped"
    /\ \E s \in 1..nscopes :
        /\ createdIn[s] = "Running"
        /\ cancel_called[s]
        /\ wpc[s] \in {"ready", "sleeping", "cancelled"}

\* C11 (as claimed): in every reachable state, every member of stop_scopes
\* was made while the state was Running, and stop_scopes is empty whenever
\* the state is Stopped.
C11_ActiveScopesInvariant ==
    /\ \A s \in stop_scopes : createdIn[s] = "Running"
    /\ state = "Stopped" => stop_scopes = {}

\* C19 (as claimed): in every reachable state, a scope that new_stop_scope
\* returned and whose cancel has not been called is a member of stop_scopes.
C19_UncancelledStaysMember ==
    \A s \in Held : ~cancel_called[s] => s \in stop_scopes

\* _watch_stop_scopes has returned without having been cancelled and without
\* an exception of a child
NormalExit(n) ==
    /\ nursery[n].status = "closed"
    /\ ~nursery[n].cancelled
    /\ ~nursery[n].crashed

\* the watch_scope tasks of nursery n that have not ended and whose scope has
\* not been cancelled
LiveUncancelled(n) ==
    {s \in Scopes : wnur[s] = n /\ ~cancel_called[s] /\ wpc[s] \in {"ready", "sleeping"}}

\* C20: when _watch_stop_scopes has ended normally, its _run_until_stopped
\* task has seen running() false, on_loaded has returned, and every scope
\* obtained from new_stop_scope in that nursery has been cancelled and removed
\* from stop_scopes by its watcher; and while a scope that is not cancelled
\* has a live watch_scope task, the nursery has not ended.
C20_WatcherTermination ==
    \A n \in Nurseries :
        /\ NormalExit(n) =>
            /\ rus[n] = "done"
            /\ onl[n] = "done"
            /\ \A s \in Scopes : wnur[s] = n =>
                    cancel_called[s] /\ wpc[s] = "removed" /\ s \notin stop_scopes
        /\ LiveUncancelled(n) # {} => nursery[n].status = "open"

C20_Witness ==
    \E n \in Nurseries :
        /\ NormalExit(n)
        /\ \E s \in Scopes : wnur[s] = n /\ wpc[s] = "removed"

====
